---- MODULE Spec2Model ----
(***************************************************************************)
(* Verification model of krx_daily_to_sheet.py: the column resolver        *)
(* (_norm, pick_col), the trading-day locator (get_recent_trading_day),    *)
(* the record assembler (try_fetch_investor, try_fetch_short,              *)
(* fetch_daily_for_ticker) and the per-ticker sheet driver                 *)
(* (ensure_ticker_sheet, existing_dates, main).                            *)
(*                                                                         *)
(* A column label is a sequence of one-character strings.  Korean          *)
(* syllables are written romanised, one token per syllable: "si","ga" is   *)
(* the two-syllable label for the open price.                              *)
(***************************************************************************)
EXTENDS Integers, Sequences, FiniteSets, TLC

VARIABLES
    pk_df,        \* pick_col: the table argument
    pk_cands,     \* pick_col: the candidate list argument
    pk_res,       \* pick_col: the value returned
    pk_pc,        \* pick_col: "call" before the call, "done" after
    lc_base,      \* get_recent_trading_day: the base_date argument
    lc_d,         \* get_recent_trading_day: the local d
    lc_n,         \* get_recent_trading_day: iterations of the for loop completed
    lc_queried,   \* the strings s passed to the index query, in call order
    lc_hits,      \* the queried strings whose result had at least one row
    lc_ret,       \* get_recent_trading_day: the value returned
    lc_pc,        \* "loop" inside the for loop, "done" after return, "raised"
    f_date,       \* fetch_daily_for_ticker: the date_str argument
    f_ticker,     \* fetch_daily_for_ticker: the ticker argument
    f_in,         \* fetch_daily_for_ticker: what the provider calls do
    f_out,        \* fetch_daily_for_ticker: the result
    f_pc,         \* "call" before the call, "done" after
    TICKERS,      \* main: the configured ticker list
    sheets,       \* the spreadsheet: worksheet title -> rows
    run,          \* how many runs of main have started
    pc,           \* main: "idle", "fetch", "ensure", "dedup", "done", "aborted"
    t_idx,         \* main: index into TICKERS of the ticker being processed
    cur_date,     \* main: trade_day.strftime("%Y%m%d")
    cur_rec,        \* main: the result of the last fetch_daily_for_ticker call
    ohlcv_in,     \* the price query outcome that call saw
    cur_ws,        \* main: the title of the worksheet ensure_ticker_sheet returned
    appended_total, \* main: the running count of appended rows
    fetched,      \* this run: the tickers passed to fetch_daily_for_ticker, in order
    written,      \* this run: the rows appended, with their worksheet
    io_error,     \* this run: a spreadsheet call raised
    printed        \* this run: what was printed per ticker ("skip", "appended")

pickVars == <<pk_df, pk_cands, pk_res, pk_pc>>

locVars == <<lc_base, lc_d, lc_n, lc_queried, lc_hits, lc_ret, lc_pc>>

fetchVars == <<f_date, f_ticker, f_in, f_out, f_pc>>

mainVars == <<TICKERS, sheets, run, pc, t_idx, cur_date, cur_rec, ohlcv_in, cur_ws, appended_total,
              fetched, written, io_error, printed>>

vars == <<pk_df, pk_cands, pk_res, pk_pc,
          lc_base, lc_d, lc_n, lc_queried, lc_hits, lc_ret, lc_pc,
          f_date, f_ticker, f_in, f_out, f_pc,
          TICKERS, sheets, run, pc, t_idx, cur_date, cur_rec, ohlcv_in, cur_ws, appended_total,
          fetched, written, io_error, printed>>

(***************************************************************************)
(* Sequence helpers                                                        *)
(***************************************************************************)
Range(s) == {s[i] : i \in DOMAIN s}

\* Python's `a in b` for strings: a is a contiguous substring of b.
IsSubstr(a, b) ==
    \E i \in 0..(Len(b) - Len(a)) : SubSeq(b, i + 1, i + Len(a)) = a

\* The smallest index of s whose element satisfies P, or 0 when none does.
FirstIdx(s, P(_)) ==
    IF \E i \in DOMAIN s : P(s[i])
    THEN CHOOSE i \in DOMAIN s : P(s[i]) /\ \A j \in 1..(i - 1) : ~P(s[j])
    ELSE 0

(***************************************************************************)
(* Tables (pandas DataFrame): ordered column labels and rows of cells.     *)
(***************************************************************************)
DF(columns, data) == [isNone |-> FALSE, columns |-> columns, data |-> data]

NoneDF == [isNone |-> TRUE, columns |-> <<>>, data |-> <<>>]

\* DataFrame.empty: some axis has length 0.
DfEmpty(df) == Len(df.columns) = 0 \/ Len(df.data) = 0

\* The value None where a column label is expected.
NoCol == <<"<None>">>

(***************************************************************************)
(* _norm                                                                   *)
(***************************************************************************)
SpaceChar == " "

\* The character class of the first re.sub; "%F" is the full-width percent
\* sign and "won" the currency glyph.
PunctChars == {"(", ")", "[", "]", "{", "}", "%F", "%", "won", ",", ".", "-", "_", "/"}

DigitChars == {"0", "1", "2", "3", "4", "5", "6", "7", "8", "9"}

NotSpace(c) == c # SpaceChar

NotPunct(c) == c \notin PunctChars

NotDigit(c) == c \notin DigitChars

Norm(s) ==
    LET s1 == SelectSeq(s, NotSpace)
        s2 == SelectSeq(s1, NotPunct)
    IN  SelectSeq(s2, NotDigit)

(***************************************************************************)
(* pick_col                                                                *)
(***************************************************************************)
\* {_norm(c): c for c in df.columns} as the sequence of its items: a key
\* keeps the position of its first insertion and the value of its last.
RECURSIVE NormMapFrom(_, _)
NormMapFrom(columns, acc) ==
    IF columns = <<>> THEN acc
    ELSE LET c == Head(columns)
             k == Norm(c)
             j == FirstIdx(acc, LAMBDA e : e.k = k)
         IN  NormMapFrom(Tail(columns),
                 IF j = 0 THEN Append(acc, [k |-> k, orig |-> c])
                 ELSE [acc EXCEPT ![j] = [k |-> k, orig |-> c]])

NormMap(columns) == NormMapFrom(columns, <<>>)

NormMapKeys(norm_map) == {norm_map[i].k : i \in DOMAIN norm_map}

NormMapGet(norm_map, k) == norm_map[FirstIdx(norm_map, LAMBDA e : e.k = k)].orig

\* First loop: the first candidate that is a column label.
PickExact(columns, candidates) ==
    LET i == FirstIdx(candidates, LAMBDA c : c \in Range(columns))
    IN  IF i = 0 THEN NoCol ELSE candidates[i]

\* Second loop: the first candidate whose normalized key is a key of norm_map.
PickNorm(norm_map, candidates) ==
    LET i == FirstIdx(candidates, LAMBDA c : Norm(c) \in NormMapKeys(norm_map))
    IN  IF i = 0 THEN NoCol ELSE NormMapGet(norm_map, Norm(candidates[i]))

\* Third loop: candidates outer, norm_map.items() inner.
PickSubstr(norm_map, candidates) ==
    LET Hit(nc, e) == nc # <<>> /\ IsSubstr(nc, e.k)
        i == FirstIdx(candidates,
                 LAMBDA c : \E j \in DOMAIN norm_map : Hit(Norm(c), norm_map[j]))
    IN  IF i = 0 THEN NoCol
        ELSE LET nc == Norm(candidates[i])
             IN  norm_map[FirstIdx(norm_map, LAMBDA e : Hit(nc, e))].orig

PickCol(df, candidates) ==
    IF df.isNone \/ DfEmpty(df) THEN NoCol
    ELSE LET norm_map == NormMap(df.columns)
             r1 == PickExact(df.columns, candidates)
             r2 == PickNorm(norm_map, candidates)
         IN  IF r1 # NoCol THEN r1
             ELSE IF r2 # NoCol THEN r2
             ELSE PickSubstr(norm_map, candidates)

(***************************************************************************)
(* Dates: datetime as [y, m, d]; timedelta(days=1); strftime / strptime.   *)
(***************************************************************************)
Date(y, m, d) == [y |-> y, m |-> m, d |-> d]

NoDate == Date(0, 0, 0)

IsLeap(y) == (y % 4 = 0 /\ y % 100 # 0) \/ y % 400 = 0

DaysInMonth(y, m) ==
    IF m = 2 THEN (IF IsLeap(y) THEN 29 ELSE 28)
    ELSE IF m \in {4, 6, 9, 11} THEN 30 ELSE 31

\* d - timedelta(days=1)
PrevDay(dt) ==
    IF dt.d > 1 THEN Date(dt.y, dt.m, dt.d - 1)
    ELSE IF dt.m > 1 THEN Date(dt.y, dt.m - 1, DaysInMonth(dt.y, dt.m - 1))
    ELSE Date(dt.y - 1, 12, 31)

DigitOf(n) == <<"0", "1", "2", "3", "4", "5", "6", "7", "8", "9">>[n + 1]

ValueOf(c) == CHOOSE n \in 0..9 : DigitOf(n) = c

Digits2(n) == <<DigitOf(n \div 10), DigitOf(n % 10)>>

Digits4(n) == Digits2(n \div 100) \o Digits2(n % 100)

Num2(s) == ValueOf(s[1]) * 10 + ValueOf(s[2])

\* dt.strftime("%Y%m%d")
StrfCompact(dt) == Digits4(dt.y) \o Digits2(dt.m) \o Digits2(dt.d)

\* datetime.strptime(s, "%Y%m%d")
StrpCompact(s) ==
    Date(Num2(SubSeq(s, 1, 2)) * 100 + Num2(SubSeq(s, 3, 4)),
         Num2(SubSeq(s, 5, 6)), Num2(SubSeq(s, 7, 8)))

\* dt.strftime("%Y-%m-%d")
StrfIso(dt) == Digits4(dt.y) \o <<"-">> \o Digits2(dt.m) \o <<"-">> \o Digits2(dt.d)

(***************************************************************************)
(* get_recent_trading_day                                                  *)
(***************************************************************************)
\* range(20)
MaxAttempts == 20

\* What one index query can do: return a table with rows, an empty table,
\* None, or raise.
QueryOutcomes == {"rows", "empty", "none", "raise"}

\* Mutant of LoopBody: no except clause, a raising query leaves the function.
LoopBody_NoCatch(outcome) ==
    IF outcome = "rows" THEN "return" ELSE IF outcome = "raise" THEN "raise" ELSE "next"

\* The try/except of one loop iteration: "return" leaves the function with
\* d, "next" goes on to d -= timedelta(days=1).
LoopBody(outcome) ==
    IF outcome = "rows" THEN "return" ELSE "next"

(***************************************************************************)
(* Cells: the values of table cells, record fields and sheet cells.        *)
(* k is the kind: "int" (n), "float" (n hundredths), "nan", "text" (a      *)
(* non-numeric string), "str" (the string s), "none" (None).               *)
(***************************************************************************)
Cell(k, n, s) == [k |-> k, n |-> n, s |-> s]

IntCell(n) == Cell("int", n, <<>>)

FloatCell(h) == Cell("float", h, <<>>)

NaNCell == Cell("nan", 0, <<>>)

TextCell == Cell("text", 0, <<"-">>)

StrCell(s) == Cell("str", 0, s)

NoneCell == Cell("none", 0, <<>>)

Ok(c) == [ok |-> TRUE, v |-> c]

Raise == [ok |-> FALSE, v |-> NoneCell]

\* int(x): an integer is kept, a float is truncated toward zero, NaN and a
\* non-numeric string raise ValueError.
ToInt(c) ==
    CASE c.k = "int" -> Ok(c)
      [] c.k = "float" ->
            Ok(IntCell(IF c.n >= 0 THEN c.n \div 100 ELSE -((-c.n) \div 100)))
      [] OTHER -> Raise

\* float(x): NaN converts (to NaN), a non-numeric string raises ValueError.
ToFloat(c) ==
    CASE c.k = "int" -> Ok(FloatCell(c.n * 100))
      [] c.k = "float" -> Ok(c)
      [] c.k = "nan" -> Ok(c)
      [] OTHER -> Raise

\* A provider call: it raises, or returns df (possibly None or empty).
Query(raises, df) == [raises |-> raises, df |-> df]

\* df.iloc[0][col] for a column label of df.
RowValue(df, col) == df.data[1][FirstIdx(df.columns, LAMBDA c : c = col)]

(***************************************************************************)
(* Labels of the program                                                   *)
(***************************************************************************)
L_Date == <<"nal", "jja">>

L_Code == <<"jong", "mok", "ko", "deu">>

L_Name == <<"jong", "mok", "myeong">>

L_Open == <<"si", "ga">>

L_High == <<"go", "ga">>

L_Low == <<"jeo", "ga">>

L_Close == <<"jong", "ga">>

L_Volume == <<"geo", "rae", "ryang">>

L_Value == <<"geo", "rae", "dae", "geum">>

L_Indiv == <<"gae", "in">>

L_Foreign == <<"oe", "guk", "in", "hap", "gye">>

L_Inst == <<"gi", "gwan", "hap", "gye">>

L_ShortQty == <<"gong", "mae", "do", "su", "ryang">>

L_ShortAmt == <<"gong", "mae", "do", "geo", "rae", "dae", "geum">>

L_ShortRatio == <<"gong", "mae", "do", "bi", "jung">>

KR_HEADER ==
    <<L_Date, L_Code, L_Name, L_Open, L_High, L_Low, L_Close, L_Volume, L_Value,
      L_Indiv, L_Foreign, L_Inst, L_ShortQty, L_ShortAmt, L_ShortRatio>>

(***************************************************************************)
(* try_fetch_investor                                                      *)
(***************************************************************************)
InvestorKeys == <<L_Indiv, L_Foreign, L_Inst>>

InvestorNone == [k \in Range(InvestorKeys) |-> NoneCell]

\* The loop `for k in out.keys()` from key i on.  out is mutated in place:
\* when int() raises, the keys already assigned keep their values, and the
\* except clause falls through to the final `return out`.
RECURSIVE InvestorLoop(_, _, _)
InvestorLoop(df, i, out) ==
    IF i > Len(InvestorKeys) THEN out
    ELSE LET k == InvestorKeys[i]
         IN  IF k \in Range(df.columns)
             THEN LET r == ToInt(RowValue(df, k))
                  IN  IF r.ok THEN InvestorLoop(df, i + 1, [out EXCEPT ![k] = r.v])
                      ELSE out
             ELSE InvestorLoop(df, i + 1, out)

\* include is INCLUDE_INVESTOR, hasattr whether the provider has the
\* function, q the outcome of the query.
TryFetchInvestor(include, hasattr, q) ==
    IF ~include THEN InvestorNone
    ELSE IF ~hasattr \/ q.raises THEN InvestorNone
    ELSE IF q.df.isNone \/ DfEmpty(q.df) THEN InvestorNone
    ELSE InvestorLoop(q.df, 1, InvestorNone)

(***************************************************************************)
(* try_fetch_short                                                         *)
(***************************************************************************)
ShortKeys == <<L_ShortQty, L_ShortAmt, L_ShortRatio>>

ShortNone == [k \in Range(ShortKeys) |-> NoneCell]

Gong == <<"gong", "mae", "do">>

QtyCands == <<Gong \o <<" ">> \o L_Volume, L_ShortQty, L_Volume>>

AmtCands == <<Gong \o <<" ">> \o L_Value, L_ShortAmt, L_Value, L_Value \o <<"(", "won", ")">>>>

RatioCands == <<Gong \o <<" ", "bi", "jung">>, L_ShortRatio, <<"bi", "jung">>>>

\* c.replace(" ", "")
StripSpaces(c) == SelectSeq(c, NotSpace)

\* pick_s: an exact label, else a label equal up to spaces; the dict
\* {c.replace(" ", ""): c} keeps the last label of each key.
PickS(df, cols) ==
    LET i == FirstIdx(cols, LAMBDA c : c \in Range(df.columns))
        j == FirstIdx(cols,
                 LAMBDA c : \E a \in Range(df.columns) : StripSpaces(a) = StripSpaces(c))
        LastWith(k) ==
            CHOOSE x \in DOMAIN df.columns :
                /\ StripSpaces(df.columns[x]) = k
                /\ \A y \in DOMAIN df.columns :
                       StripSpaces(df.columns[y]) = k => y <= x
    IN  IF i # 0 THEN cols[i]
        ELSE IF j # 0 THEN df.columns[LastWith(StripSpaces(cols[j]))]
        ELSE NoCol

ShortResult(raised, out) == [raised |-> raised, out |-> out]

\* include is INCLUDE_SHORT, q the outcome of the query.  The two int()
\* conversions are outside any try: a failure leaves the function raising.
TryFetchShort(include, q) ==
    IF ~include THEN ShortResult(FALSE, ShortNone)
    ELSE LET df == IF q.raises THEN NoneDF ELSE q.df
         IN  IF df.isNone \/ DfEmpty(df) THEN ShortResult(FALSE, ShortNone)
             ELSE LET qty_col == PickS(df, QtyCands)
                      amt_col == PickS(df, AmtCands)
                      ratio_col == PickS(df, RatioCands)
                      qty == IF qty_col # NoCol /\ qty_col # <<>>
                             THEN ToInt(RowValue(df, qty_col)) ELSE Ok(NoneCell)
                      amt == IF amt_col # NoCol /\ amt_col # <<>>
                             THEN ToInt(RowValue(df, amt_col)) ELSE Ok(NoneCell)
                      ratio == IF ratio_col # NoCol /\ ratio_col # <<>>
                               THEN ToFloat(RowValue(df, ratio_col)) ELSE Ok(NoneCell)
                 IN  IF ~qty.ok \/ ~amt.ok THEN ShortResult(TRUE, ShortNone)
                     ELSE ShortResult(FALSE,
                              (L_ShortQty :> qty.v) @@ (L_ShortAmt :> amt.v) @@
                              (L_ShortRatio :> (IF ratio.ok THEN ratio.v ELSE NoneCell)))

(***************************************************************************)
(* fetch_daily_for_ticker                                                  *)
(***************************************************************************)
ValueCands ==
    <<L_Value, L_Value \o <<"(", "won", ")">>, <<"geo", "rae", " ", "dae", "geum">>,
      L_Value \o <<"(", "baek", "man", ")">>>>

RequiredFields == <<L_Open, L_High, L_Low, L_Close, L_Volume>>

\* The inputs of one call: the outcomes of the provider calls it makes and
\* the configuration it reads.
FetchInput(ohlcv, name, include_investor, hasattr, inv, include_short, short) ==
    [ohlcv |-> ohlcv, name |-> name, include_investor |-> include_investor,
     hasattr |-> hasattr, inv |-> inv, include_short |-> include_short, short |-> short]

\* A name lookup: it raises, or returns the string s.
NameLookup(raises, s) == [raises |-> raises, s |-> s]

NoRec == [k \in Range(KR_HEADER) |-> NoneCell]

\* What a call does: "rec" returns the record, "none" returns None,
\* "raise" lets an exception out.
FetchResult(kind, rec) == [kind |-> kind, rec |-> rec]

\* Mutant of IntOf: the value is stored without int().
IntOf_NoCoerce(df, col) == Ok(RowValue(df, col))

\* int(row[col]) of lines 165-169.
IntOf(df, col) == ToInt(RowValue(df, col))

\* The body of the try block.  An exception inside it is the result "raise".
FetchBody(date_str, ticker, in) ==
    IF in.ohlcv.raises THEN FetchResult("raise", NoRec)
    ELSE LET ohlcv == in.ohlcv.df
         IN
         IF ohlcv.isNone \/ DfEmpty(ohlcv) THEN FetchResult("none", NoRec)
         ELSE
         LET cols == [i \in DOMAIN RequiredFields |-> PickCol(ohlcv, <<RequiredFields[i]>>)]
             val_col == PickCol(ohlcv, ValueCands)
             missing == {i \in DOMAIN RequiredFields : cols[i] = NoCol}
         IN
         IF missing # {} THEN FetchResult("none", NoRec)
         ELSE
         LET val == IF val_col # NoCol THEN ToInt(RowValue(ohlcv, val_col)) ELSE Ok(NoneCell)
             value_val == IF val.ok THEN val.v ELSE NoneCell
             ticker_name == IF in.name.raises THEN <<>> ELSE in.name.s
             req == [i \in DOMAIN RequiredFields |-> IntOf(ohlcv, cols[i])]
             inv == TryFetchInvestor(in.include_investor, in.hasattr, in.inv)
             short == TryFetchShort(in.include_short, in.short)
         IN
         IF \E i \in DOMAIN req : ~req[i].ok THEN FetchResult("raise", NoRec)
         ELSE IF short.raised THEN FetchResult("raise", NoRec)
         ELSE FetchResult("rec",
                  (L_Date :> StrCell(StrfIso(StrpCompact(date_str)))) @@
                  (L_Code :> StrCell(ticker)) @@
                  (L_Name :> StrCell(ticker_name)) @@
                  (L_Open :> req[1].v) @@ (L_High :> req[2].v) @@
                  (L_Low :> req[3].v) @@ (L_Close :> req[4].v) @@
                  (L_Volume :> req[5].v) @@ (L_Value :> value_val) @@
                  short.out @@ inv)

\* Mutant of FetchDailyForTicker: no except clause around the body.
FetchDailyForTicker_NoCatch(date_str, ticker, in) == FetchBody(date_str, ticker, in)

\* try: ... except Exception: return None
FetchDailyForTicker(date_str, ticker, in) ==
    LET r == FetchBody(date_str, ticker, in)
    IN  IF r.kind = "raise" THEN FetchResult("none", NoRec) ELSE r

(***************************************************************************)
(* The spreadsheet: a worksheet is the sequence of its rows, a row the     *)
(* sequence of its cells up to the last non-empty one.  Reading returns    *)
(* every cell as a string.                                                 *)
(***************************************************************************)
RECURSIVE NatDigits(_)
NatDigits(n) == IF n < 10 THEN <<DigitOf(n)>> ELSE NatDigits(n \div 10) \o <<DigitOf(n % 10)>>

IntDigits(n) == IF n < 0 THEN <<"-">> \o NatDigits(-n) ELSE NatDigits(n)

\* The string a stored cell reads back as.
Render(c) ==
    CASE c.k = "int" -> IntDigits(c.n)
      [] c.k = "float" ->
            IntDigits(IF c.n >= 0 THEN c.n \div 100 ELSE -((-c.n) \div 100))
                \o <<".">> \o Digits2((IF c.n >= 0 THEN c.n ELSE -c.n) % 100)
      [] c.k = "nan" -> <<"N", "a", "N">>
      [] c.k = "none" -> <<>>
      [] OTHER -> c.s

IsBlank(c) == Render(c) = <<>>

RECURSIVE TrimRow(_)
TrimRow(row) ==
    IF row = <<>> THEN row
    ELSE IF IsBlank(row[Len(row)]) THEN TrimRow(SubSeq(row, 1, Len(row) - 1))
    ELSE row

\* ws.row_values(r)
RowValues(sheet, r) ==
    IF r <= Len(sheet) THEN [j \in DOMAIN sheet[r] |-> Render(sheet[r][j])] ELSE <<>>

RECURSIVE MaxWidth(_)
MaxWidth(sheet) ==
    IF sheet = <<>> THEN 0
    ELSE LET w == MaxWidth(Tail(sheet))
         IN  IF Len(Head(sheet)) > w THEN Len(Head(sheet)) ELSE w

\* ws.get_all_values(): every row padded to the width of the widest.
GetAllValues(sheet) ==
    [r \in DOMAIN sheet |->
        [j \in 1..MaxWidth(sheet) |->
            IF j <= Len(sheet[r]) THEN Render(sheet[r][j]) ELSE <<>>]]

\* ws.append_row(values)
AppendRow(sheet, values) == Append(sheet, TrimRow(values))

\* ws.insert_row(values, 1)
InsertRow1(sheet, values) == <<TrimRow(values)>> \o sheet

\* ws.delete_row(1)
DeleteRow1(sheet) == IF sheet = <<>> THEN sheet ELSE Tail(sheet)

(***************************************************************************)
(* ensure_ticker_sheet                                                     *)
(***************************************************************************)
IsSpace(c) == c = SpaceChar

RECURSIVE LStrip(_)
LStrip(t) == IF t # <<>> /\ IsSpace(Head(t)) THEN LStrip(Tail(t)) ELSE t

RECURSIVE RStrip(_)
RStrip(t) ==
    IF t # <<>> /\ IsSpace(t[Len(t)]) THEN RStrip(SubSeq(t, 1, Len(t) - 1)) ELSE t

\* str.strip()
Strip(t) == LStrip(RStrip(t))

\* title = f"{ticker} {name}".strip() if name else f"{ticker}"
SheetTitle(ticker, name) ==
    IF name # <<>> THEN Strip(ticker \o <<" ">> \o name) ELSE ticker

HeaderCells(header) == [j \in DOMAIN header |-> StrCell(header[j])]

EnsureResult(ok, sh) == [ok |-> ok, sh |-> sh]

\* Mutant of EnsureHeader: a first row that differs is left as it is.
EnsureHeader_NoRepair(ws, header, fail) ==
    IF fail = 4 THEN EnsureResult(FALSE, ws) ELSE EnsureResult(TRUE, ws)

\* The part from `first = ws.row_values(1)` on, for the worksheet ws.
\* fail numbers the spreadsheet call that raises: 4 row_values,
\* 5 delete_row, 6 insert_row; 0 when none does.
EnsureHeader(ws, header, fail) ==
    IF fail = 4 THEN EnsureResult(FALSE, ws)
    ELSE LET first == RowValues(ws, 1)
         IN  IF first # header
             THEN LET deleted == IF first # <<>> THEN DeleteRow1(ws) ELSE ws
                  IN  IF first # <<>> /\ fail = 5 THEN EnsureResult(FALSE, ws)
                      ELSE IF fail = 6 THEN EnsureResult(FALSE, deleted)
                      ELSE EnsureResult(TRUE, InsertRow1(deleted, HeaderCells(header)))
             ELSE EnsureResult(TRUE, ws)

\* sh maps the titles of the worksheets that exist to their rows.  fail
\* numbers the spreadsheet call that raises an error other than
\* WorksheetNotFound: 1 worksheet, 2 add_worksheet, 3 append_row, then as in
\* EnsureHeader.  The result holds the spreadsheet afterwards and whether
\* the function returned.
EnsureTickerSheet(sh, title, header, fail) ==
    IF fail = 1 THEN EnsureResult(FALSE, sh)
    ELSE IF title \in DOMAIN sh
    THEN LET r == EnsureHeader(sh[title], header, fail)
         IN  EnsureResult(r.ok, [sh EXCEPT ![title] = r.sh])
    ELSE IF fail = 2 THEN EnsureResult(FALSE, sh)
    ELSE IF fail = 3 THEN EnsureResult(FALSE, sh @@ (title :> <<>>))
    ELSE LET r == EnsureHeader(AppendRow(<<>>, HeaderCells(header)), header, fail)
         IN  EnsureResult(r.ok, sh @@ (title :> r.sh))

(***************************************************************************)
(* existing_dates                                                          *)
(***************************************************************************)
\* Mutant of ExistingDates: the slice starts one row too late (data[2:]).
ExistingDates_FromThirdRow(data) ==
    {data[r][1] : r \in {x \in 3..Len(data) : Len(data[x]) >= 1 /\ data[x][1] # <<>>}}

\* data is the result of ws.get_all_values().
ExistingDates(data) ==
    {data[r][1] : r \in {x \in 2..Len(data) : Len(data[x]) >= 1 /\ data[x][1] # <<>>}}


(***************************************************************************)
(* Idle values: a specification leaves the variables of the others here.   *)
(***************************************************************************)
InitLocateIdle ==
    /\ lc_base = NoDate
    /\ lc_d = NoDate
    /\ lc_n = 0
    /\ lc_queried = <<>>
    /\ lc_hits = <<>>
    /\ lc_ret = NoDate
    /\ lc_pc = "idle"

InitPickIdle ==
    /\ pk_df = NoneDF
    /\ pk_cands = <<>>
    /\ pk_res = NoCol
    /\ pk_pc = "idle"

InitMainIdle ==
    /\ TICKERS = <<>>
    /\ sheets = <<>>
    /\ run = 0
    /\ pc = "idle"
    /\ t_idx = 0
    /\ cur_date = <<>>
    /\ cur_rec = FetchResult("none", NoRec)
    /\ ohlcv_in = Query(TRUE, NoneDF)
    /\ cur_ws = <<>>
    /\ appended_total = 0
    /\ fetched = <<>>
    /\ written = <<>>
    /\ io_error = FALSE
    /\ printed = <<>>

InitFetchIdle ==
    /\ f_date = <<>>
    /\ f_ticker = <<>>
    /\ f_in = FetchInput(Query(TRUE, NoneDF), NameLookup(TRUE, <<>>), FALSE, FALSE,
                         Query(TRUE, NoneDF), FALSE, Query(TRUE, NoneDF))
    /\ f_out = FetchResult("none", NoRec)
    /\ f_pc = "idle"

BaseDates == {Date(2025, 10, 5), Date(2025, 3, 5), Date(2024, 3, 10), Date(2025, 1, 3)}

InitLocate ==
    /\ lc_base \in BaseDates
    /\ lc_d = lc_base
    /\ lc_n = 0
    /\ lc_queried = <<>>
    /\ lc_hits = <<>>
    /\ lc_ret = NoDate
    /\ lc_pc = "loop"
    /\ InitPickIdle
    /\ InitFetchIdle
    /\ InitMainIdle

\* One iteration of the for loop.
LocateIterate ==
    /\ lc_pc = "loop"
    /\ lc_n < MaxAttempts
    /\ \E outcome \in QueryOutcomes :
         LET s == StrfCompact(lc_d)
             step == LoopBody(outcome)
         IN  /\ lc_queried' = Append(lc_queried, s)
             /\ lc_hits' = IF outcome = "rows" THEN Append(lc_hits, s) ELSE lc_hits
             /\ lc_pc' = CASE step = "return" -> "done"
                           [] step = "next" -> "loop"
                           [] OTHER -> "raised"
             /\ lc_ret' = IF step = "return" THEN lc_d ELSE lc_ret
             /\ lc_d' = IF step = "next" THEN PrevDay(lc_d) ELSE lc_d
             /\ lc_n' = IF step = "next" THEN lc_n + 1 ELSE lc_n
    /\ UNCHANGED <<lc_base, pickVars, fetchVars, mainVars>>

\* The loop is exhausted: return d.
LocateExhausted ==
    /\ lc_pc = "loop"
    /\ lc_n = MaxAttempts
    /\ lc_ret' = lc_d
    /\ lc_pc' = "done"
    /\ UNCHANGED <<lc_base, lc_d, lc_n, lc_queried, lc_hits, pickVars, fetchVars, mainVars>>

NextLocate == LocateIterate \/ LocateExhausted

SpecLocate == InitLocate /\ [][NextLocate]_vars

(***************************************************************************)
(* Claims about get_recent_trading_day                                     *)
(***************************************************************************)
\* Days from 0001-01-01 to dt, computed in closed form.
DaysBeforeYear(y) == (y - 1) * 365 + (y - 1) \div 4 - (y - 1) \div 100 + (y - 1) \div 400

RECURSIVE DaysBeforeMonth(_, _)
DaysBeforeMonth(y, m) ==
    IF m = 1 THEN 0 ELSE DaysBeforeMonth(y, m - 1) + DaysInMonth(y, m - 1)

Ordinal(dt) == DaysBeforeYear(dt.y) + DaysBeforeMonth(dt.y, dt.m) + dt.d

\* C5: the walk ends without raising after at most 20 queries; the days
\* queried are baseDate, baseDate-1, ... with none skipped; and when a
\* queried day has rows the function returns that day, the first such day.
C5_LocatorBoundedWalk ==
    /\ lc_pc \in {"loop", "done"}
    /\ Len(lc_queried) <= MaxAttempts
    /\ lc_pc = "loop" => ENABLED NextLocate
    /\ \A i \in DOMAIN lc_queried :
           Ordinal(StrpCompact(lc_queried[i])) = Ordinal(lc_base) - (i - 1)
    /\ lc_hits # <<>> =>
           /\ lc_pc = "done"
           /\ lc_hits = <<lc_queried[Len(lc_queried)]>>
           /\ StrfCompact(lc_ret) = lc_hits[1]

\* C5 witness: nineteen days without rows, whatever the reason, and the
\* twentieth query finds rows.
C5_Witness ==
    /\ lc_pc = "done"
    /\ Len(lc_queried) = MaxAttempts
    /\ lc_hits # <<>>
    /\ lc_ret = Date(2025, 2, 14)

\* C6: when no queried day has rows, the function returns the last date it
\* queried (the date of the 20th query).
C6_FallbackIsLastQueried ==
    (lc_pc = "done" /\ lc_hits = <<>>) =>
        StrfCompact(lc_ret) = lc_queried[Len(lc_queried)]

(***************************************************************************)
(* SpecFetch: fetch_daily_for_ticker applied to provider outcomes.         *)
(***************************************************************************)
L_Change == <<"deung", "rak", "ryul">>

StdCols == <<L_Open, L_High, L_Low, L_Close, L_Volume, L_Value, L_Change>>

StdRow ==
    <<IntCell(10), IntCell(12), IntCell(9), IntCell(11), IntCell(500), IntCell(5500),
      FloatCell(123)>>

\* Labels carrying a unit annotation: "거래량(주)", "거래대금(원)".
UnitCols ==
    <<L_Open, L_High, L_Low, L_Close, L_Volume \o <<"(", "ju", ")">>,
      L_Value \o <<"(", "won", ")">>>>

DropAt(s, i) == SubSeq(s, 1, i - 1) \o SubSeq(s, i + 1, Len(s))

BadCells == {NaNCell, TextCell}

OhlcvTables ==
    {DF(StdCols, <<StdRow>>), DF(UnitCols, <<DropAt(StdRow, 7)>>),
     DF(StdCols, <<[StdRow EXCEPT ![5] = FloatCell(50050)]>>),
     DF(StdCols, <<>>), NoneDF}
    \cup {DF(StdCols, <<[StdRow EXCEPT ![i] = bad]>>) : i \in 1..6, bad \in BadCells}
    \cup {DF(DropAt(StdCols, i), <<DropAt(StdRow, i)>>) : i \in 1..6}

OhlcvQueries == {Query(FALSE, t) : t \in OhlcvTables} \cup {Query(TRUE, NoneDF)}

InvCols == <<L_Inst, <<"gi", "ta", "beop", "in">>, L_Indiv, L_Foreign, <<"jeon", "che">>>>

InvCellChoices == {IntCell(-30), NaNCell}

InvTables ==
    {DF(InvCols, <<<<a, IntCell(1), b, c, IntCell(0)>>>>) :
        a \in InvCellChoices, b \in InvCellChoices, c \in InvCellChoices}
    \cup {DF(<<L_Inst, L_Indiv, <<"oe", "guk", "in">>>>,
             <<<<IntCell(7), IntCell(-30), IntCell(23)>>>>),
          DF(InvCols, <<>>), NoneDF}

InvQueries == {Query(FALSE, t) : t \in InvTables} \cup {Query(TRUE, NoneDF)}

ShortColsPlain == <<L_Volume, L_Value, <<"bi", "jung">>>>

ShortColsSpaced ==
    <<Gong \o <<" ">> \o L_Volume, Gong \o <<" ">> \o L_Value, Gong \o <<" ", "bi", "jung">>>>

ShortColsLoose == <<Gong \o <<" ", "su", "ryang">>, Gong \o <<"geo", "rae", " ", "dae", "geum">>>>

ShortTables ==
    {DF(cs, <<<<q, a, r>>>>) :
        cs \in {ShortColsPlain, ShortColsSpaced},
        q \in {IntCell(40), NaNCell}, a \in {IntCell(440), TextCell},
        r \in {FloatCell(250), TextCell, NaNCell}}
    \cup {DF(SubSeq(ShortColsPlain, 1, 2), <<<<q, IntCell(440)>>>>) : q \in {IntCell(40), NaNCell}}
    \cup {DF(ShortColsLoose, <<<<IntCell(40), IntCell(440)>>>>),
          DF(ShortColsPlain, <<>>), NoneDF}

ShortQueries == {Query(FALSE, t) : t \in ShortTables} \cup {Query(TRUE, NoneDF)}

NameLookups == {NameLookup(TRUE, <<>>), NameLookup(FALSE, <<"N">>)}

InitFetch ==
    /\ f_date = StrfCompact(Date(2025, 9, 29))
    /\ f_ticker = <<"0", "8", "2", "2", "7", "0">>
    /\ f_in \in {FetchInput(o, nm, ii, ha, iq, is, sq) :
                    o \in OhlcvQueries, nm \in NameLookups, ii \in BOOLEAN, ha \in BOOLEAN,
                    iq \in InvQueries, is \in BOOLEAN, sq \in ShortQueries}
    /\ f_out = FetchResult("none", NoRec)
    /\ f_pc = "call"
    /\ InitPickIdle
    /\ InitLocateIdle
    /\ InitMainIdle

CallFetch ==
    /\ f_pc = "call"
    /\ f_out' = FetchDailyForTicker(f_date, f_ticker, f_in)
    /\ f_pc' = "done"
    /\ UNCHANGED <<f_date, f_ticker, f_in, pickVars, locVars, mainVars>>

NextFetch == CallFetch

SpecFetch == InitFetch /\ [][NextFetch]_vars

(***************************************************************************)
(* Claims about the record assembler                                       *)
(***************************************************************************)
\* A value int() accepts: an integer or a finite float.
IntCoercible(c) == c.k \in {"int", "float"}

\* The required fields of a price table all resolve and coerce to integers.
RequiredAllOk(q) ==
    /\ ~q.raises /\ ~q.df.isNone /\ ~DfEmpty(q.df)
    /\ \A i \in DOMAIN RequiredFields :
           LET col == PickCol(q.df, <<RequiredFields[i]>>)
           IN  col # NoCol /\ IntCoercible(RowValue(q.df, col))

\* C3: enrichment never blocks the primary record.  When the required
\* fields all resolve and coerce, a record is returned whatever the investor
\* and short-interest queries do; a failed enrichment query leaves its
\* fields absent.
C3_EnrichmentNeverBlocks ==
    (f_pc = "done" /\ RequiredAllOk(f_in.ohlcv)) =>
        /\ f_out.kind = "rec"
        /\ (f_in.short.raises \/ f_in.short.df.isNone \/ DfEmpty(f_in.short.df)) =>
               \A k \in Range(ShortKeys) : f_out.rec[k] = NoneCell
        /\ (f_in.inv.raises \/ f_in.inv.df.isNone \/ DfEmpty(f_in.inv.df)) =>
               \A k \in Range(InvestorKeys) : f_out.rec[k] = NoneCell

\* Something fails in the secondary query: the function is unsupported, the
\* query raises or returns nothing, or a class value cannot be coerced.
InvestorFails(in) ==
    \/ ~in.hasattr
    \/ in.inv.raises
    \/ in.inv.df.isNone
    \/ DfEmpty(in.inv.df)
    \/ \E k \in Range(InvestorKeys) :
           k \in Range(in.inv.df.columns) /\ ~IntCoercible(RowValue(in.inv.df, k))

\* C8: the investor-class breakdown is all-or-nothing on failure.  When
\* anything fails in the secondary query, the three investor-class fields
\* of the record are all absent.
C8_InvestorAllOrNothing ==
    (f_pc = "done" /\ f_out.kind = "rec" /\ f_in.include_investor /\ InvestorFails(f_in)) =>
        \A k \in Range(InvestorKeys) : f_out.rec[k] = NoneCell


(***************************************************************************)
(* main                                                                    *)
(***************************************************************************)
\* get_recent_trading_day as main calls it: the loop of LocateIterate run to
\* its end against a calendar cal, which gives the outcome of the index
\* query for each day.  NoDate stands for an exception leaving the function.
\* The index query under a calendar: "open" is a market trading every
\* weekday, "down" a provider whose every query raises.
CalOutcome(cal, d) ==
    IF cal = "down" THEN "raise"
    ELSE IF Ordinal(d) % 7 \in {6, 0} THEN "empty" ELSE "rows"

RECURSIVE Walk(_, _, _)
Walk(d, n, cal) ==
    IF n = MaxAttempts THEN d
    ELSE LET step == LoopBody(CalOutcome(cal, d))
         IN  CASE step = "return" -> d
               [] step = "next" -> Walk(PrevDay(d), n + 1, cal)
               [] OTHER -> NoDate

GetRecentTradingDay(base_date, cal) == Walk(base_date, 0, cal)

\* row = [rec.get(h, "") for h in KR_HEADER]
RowOf(r) == [j \in DOMAIN KR_HEADER |-> r[KR_HEADER[j]]]

\* The end of one iteration of `for t in TICKERS`: position of main next.
NextPc == IF t_idx < Len(TICKERS) THEN "fetch" ELSE "done"

NextIdx == IF t_idx < Len(TICKERS) THEN t_idx + 1 ELSE t_idx

(***************************************************************************)
(* SpecMain: runs of main, one at a time, against one spreadsheet.         *)
(***************************************************************************)
MaxRuns == 2

T1 == <<"0", "8", "2", "2", "7", "0">>

T2 == <<"3", "5", "8", "5", "7", "0">>

TickerLists == {<<T1, T2>>, <<T1, T1>>}

\* The display name the provider knows for a ticker.
NameOf(t) == IF t = T1 THEN <<"N", "1">> ELSE <<"N", "2">>

\* A Sunday: an open market answers for Friday 2025-10-03.
MainBaseDates == {Date(2025, 10, 5)}

Calendars == {"open", "down"}

GoodInv == DF(InvCols, <<<<IntCell(7), IntCell(1), IntCell(-30), IntCell(23), IntCell(0)>>>>)

GoodShort == DF(ShortColsPlain, <<<<IntCell(40), IntCell(440), FloatCell(250)>>>>)

\* What the provider can do for one ticker: a good price table with a good
\* short-interest table or one whose quantity is NaN, a good price table with
\* a failing name lookup, and the price queries that yield no record: a
\* table without one of the required columns, a NaN or a non-numeric string
\* in one, no rows, an error.
MainFetchInputs(t) ==
    {FetchInput(Query(FALSE, DF(StdCols, <<StdRow>>)), NameLookup(FALSE, NameOf(t)),
                TRUE, TRUE, Query(FALSE, GoodInv), TRUE, sq) :
        sq \in {Query(FALSE, GoodShort),
                Query(FALSE, DF(ShortColsPlain, <<<<NaNCell, IntCell(440), FloatCell(250)>>>>))}}
    \cup
    {FetchInput(Query(FALSE, DF(StdCols, <<StdRow>>)), NameLookup(TRUE, <<>>),
                TRUE, TRUE, Query(FALSE, GoodInv), TRUE, Query(FALSE, GoodShort))}
    \cup
    {FetchInput(o, NameLookup(FALSE, NameOf(t)), TRUE, TRUE,
                Query(FALSE, GoodInv), TRUE, Query(FALSE, GoodShort)) :
        o \in {Query(FALSE, DF(DropAt(StdCols, c), <<DropAt(StdRow, c)>>)) : c \in 1..5}
               \cup {Query(FALSE, DF(StdCols, <<[StdRow EXCEPT ![4] = NaNCell]>>)),
                     Query(FALSE, DF(StdCols, <<[StdRow EXCEPT ![1] = TextCell]>>))}
               \cup {Query(FALSE, DF(StdCols, <<>>)), Query(TRUE, NoneDF)}}

\* A row this program appended on an earlier day, when neither the
\* investor nor the short-interest table was available: the cells up to
\* the traded value.
OldRow(dt, t) ==
    <<StrCell(StrfIso(dt)), StrCell(t), StrCell(NameOf(t)),
      IntCell(10), IntCell(12), IntCell(9), IntCell(11), IntCell(500), IntCell(5500)>>

\* The header of the nine-column schema of an earlier version.
StaleHeader ==
    HeaderCells(<<L_Date, L_Code, L_Name, L_Open, L_High, L_Low, L_Close, L_Volume, L_Change>>)

\* What a worksheet can hold before a run: a header of either schema over
\* a row, an empty first row over a row, rows without any header.  (A run
\* that fails leaves the other cases: no rows at all, the header alone.)
InitContents(t) ==
    {<<HeaderCells(KR_HEADER), OldRow(Date(2025, 10, 3), t)>>,
     <<StaleHeader, OldRow(Date(2025, 10, 3), t)>>,
     <<<<>>, OldRow(Date(2025, 10, 3), t)>>,
     <<OldRow(Date(2025, 10, 2), t), OldRow(Date(2025, 10, 3), t)>>}

InitSheets ==
    {<<>>}
    \cup {SheetTitle(T1, NameOf(T1)) :> c : c \in InitContents(T1)}
    \cup {SheetTitle(T1, <<>>) :> <<StaleHeader, OldRow(Date(2025, 10, 3), T1)>>}

\* The configuration is present (the credential and the spreadsheet id).
InitMain ==
    /\ TICKERS \in TickerLists
    /\ sheets \in InitSheets
    /\ run = 0
    /\ pc = "idle"
    /\ t_idx = 0
    /\ cur_date = <<>>
    /\ cur_rec = FetchResult("none", NoRec)
    /\ ohlcv_in = Query(TRUE, NoneDF)
    /\ cur_ws = <<>>
    /\ appended_total = 0
    /\ fetched = <<>>
    /\ written = <<>>
    /\ io_error = FALSE
    /\ printed = <<>>
    /\ InitPickIdle
    /\ InitLocateIdle
    /\ InitFetchIdle

\* main up to the for loop: the base date, the trading day, authorize and
\* open_by_key (open_fails: one of the two raises).
StartRun ==
    /\ pc \in {"idle", "done", "aborted"}
    /\ run < MaxRuns
    /\ \E base \in MainBaseDates, cal \in Calendars, open_fails \in BOOLEAN :
         \E trade_day \in {GetRecentTradingDay(base, cal)} :
             /\ cur_date' = IF trade_day = NoDate THEN <<>> ELSE StrfCompact(trade_day)
             /\ io_error' = (trade_day # NoDate /\ open_fails)
             /\ pc' = IF trade_day = NoDate \/ open_fails THEN "aborted"
                      ELSE IF TICKERS = <<>> THEN "done" ELSE "fetch"
    /\ run' = run + 1
    /\ t_idx' = 1
    /\ cur_rec' = FetchResult("none", NoRec)
    /\ ohlcv_in' = Query(TRUE, NoneDF)
    /\ cur_ws' = <<>>
    /\ appended_total' = 0
    /\ fetched' = <<>>
    /\ written' = <<>>
    /\ printed' = <<>>
    /\ UNCHANGED <<TICKERS, sheets, pickVars, locVars, fetchVars>>

\* rec = fetch_daily_for_ticker(date_str, t); if not rec: continue
Fetch ==
    /\ pc = "fetch"
    /\ \E in \in MainFetchInputs(TICKERS[t_idx]) :
         \E r \in {FetchDailyForTicker(cur_date, TICKERS[t_idx], in)} :
             /\ cur_rec' = r
             /\ ohlcv_in' = in.ohlcv
             /\ pc' = CASE r.kind = "rec" -> "ensure"
                        [] r.kind = "none" -> NextPc
                        [] OTHER -> "aborted"
             /\ t_idx' = IF r.kind = "none" THEN NextIdx ELSE t_idx
    /\ fetched' = Append(fetched, TICKERS[t_idx])
    /\ UNCHANGED <<TICKERS, sheets, run, cur_date, cur_ws, appended_total, written,
                   io_error, printed, pickVars, locVars, fetchVars>>

\* ws = ensure_ticker_sheet(sh, t, name, KR_HEADER); fail numbers the
\* spreadsheet call that raises, 0 when none does.
Ensure ==
    /\ pc = "ensure"
    /\ \E fail \in 0..6 :
         \E title \in {SheetTitle(TICKERS[t_idx], cur_rec.rec[L_Name].s)} :
         \E r \in {EnsureTickerSheet(sheets, title, KR_HEADER, fail)} :
             /\ sheets' = r.sh
             /\ cur_ws' = IF r.ok THEN title ELSE cur_ws
             /\ pc' = IF r.ok THEN "dedup" ELSE "aborted"
             /\ io_error' = ~r.ok
    /\ UNCHANGED <<TICKERS, run, t_idx, cur_date, cur_rec, ohlcv_in, appended_total,
                   fetched, written, printed, pickVars, locVars, fetchVars>>

\* seen = existing_dates(ws) and the rest of the loop body; fail is 7 when
\* get_all_values raises, 8 when append_row raises, 0 when neither does.
DedupAppend ==
    /\ pc = "dedup"
    /\ \E fail \in {0, 7, 8} :
         \E dup \in {fail # 7 /\ cur_rec.rec[L_Date].s
                                       \in ExistingDates(GetAllValues(sheets[cur_ws]))} :
         LET raised == fail = 7 \/ (~dup /\ fail = 8)
             row == RowOf(cur_rec.rec)
         IN  /\ sheets' = IF raised \/ dup THEN sheets
                          ELSE [sheets EXCEPT ![cur_ws] = AppendRow(sheets[cur_ws], row)]
             /\ written' = IF raised \/ dup THEN written
                           ELSE Append(written, [title |-> cur_ws, row |-> TrimRow(row),
                                                 ohlcv |-> ohlcv_in])
             /\ appended_total' = IF raised \/ dup THEN appended_total ELSE appended_total + 1
             /\ printed' = IF raised THEN printed
                           ELSE Append(printed, IF dup THEN "skip" ELSE "appended")
             /\ pc' = IF raised THEN "aborted" ELSE NextPc
             /\ t_idx' = IF raised THEN t_idx ELSE NextIdx
             /\ io_error' = raised
    /\ UNCHANGED <<TICKERS, run, cur_date, cur_rec, ohlcv_in, cur_ws, fetched,
                   pickVars, locVars, fetchVars>>

NextMain == StartRun \/ Fetch \/ Ensure \/ DedupAppend

SpecMain == InitMain /\ [][NextMain]_vars


(***************************************************************************)
(* Claims about main and the sheet driver                                  *)
(***************************************************************************)
\* The date a stored row carries: its first cell as read back; the empty
\* string when the row has no first cell.
DateOf(row) == IF Len(row) >= 1 THEN Render(row[1]) ELSE <<>>

\* The rows after the first.
Body(sheet) == IF sheet = <<>> THEN <<>> ELSE Tail(sheet)

\* No two body rows carry the same date.
NoDupDates(sheet) ==
    \A r1, r2 \in 2..Len(sheet) :
        (r1 # r2 /\ DateOf(sheet[r1]) # <<>>) => DateOf(sheet[r1]) # DateOf(sheet[r2])

\* The worksheet the ticker being processed is written to.
CurTitle ==
    IF pc = "dedup" THEN cur_ws ELSE SheetTitle(TICKERS[t_idx], cur_rec.rec[L_Name].s)

\* The sheet already records the date: it has the header and a body row
\* carrying that date, as a completed run for the date leaves it.
Recorded(sheet, key) ==
    /\ RowValues(sheet, 1) = KR_HEADER
    /\ \E r \in 2..Len(sheet) : DateOf(sheet[r]) = key

\* C1: a worksheet with no two body rows of the same date has none after
\* any step of a run; and processing a (date, ticker) whose sheet already
\* records the date leaves that sheet, and so its row count, unchanged.
C1_DedupByDate ==
    [][/\ \A t \in DOMAIN sheets' :
              (t \in DOMAIN sheets => NoDupDates(sheets[t])) => NoDupDates(sheets'[t])
       /\ (/\ pc \in {"ensure", "dedup"}
           /\ CurTitle \in DOMAIN sheets
           /\ Recorded(sheets[CurTitle], StrfIso(StrpCompact(cur_date))))
          => sheets'[CurTitle] = sheets[CurTitle]]_vars

\* C1 witness: a second run found every record already in its sheet.
C1_Witness ==
    /\ run = 2 /\ pc = "done" /\ fetched = TICKERS
    /\ printed # <<>> /\ \A j \in DOMAIN printed : printed[j] = "skip"

\* C2: a ticker whose price table lacks a resolvable required column, or
\* holds a value int() rejects in one, yields no record and no row; every
\* row appended has the five required fields as integers.
C2_NoPartialRow ==
    /\ cur_rec.kind = "rec" => RequiredAllOk(ohlcv_in)
    /\ pc \in {"ensure", "dedup"} => cur_rec.kind = "rec"
    /\ \A j \in DOMAIN written :
           /\ RequiredAllOk(written[j].ohlcv)
           /\ \A c \in 4..8 : written[j].row[c].k = "int"
           /\ Len(written[j].row) >= 8

\* C2 witness: a run appended one ticker's row and dropped the record of
\* another whose table has no resolvable volume column.
C2_Witness ==
    /\ pc = "done" /\ Len(written) = 1 /\ Len(fetched) = 2
    /\ cur_rec.kind = "none"
    /\ ~ohlcv_in.raises /\ ~DfEmpty(ohlcv_in.df)
    /\ PickCol(ohlcv_in.df, <<L_Volume>>) = NoCol

\* C7 as stated: whatever fails while one ticker is processed, every ticker
\* of the list is still processed.
C7_AnyFailureContained ==
    (pc \in {"done", "aborted"} /\ fetched # <<>>) => fetched = TICKERS

\* The sheet has a body row carrying the date.
HasDate(sheet, key) == \E r \in 2..Len(sheet) : DateOf(sheet[r]) = key

\* C7 amended: a provider or assembly failure on one ticker ends only that
\* ticker's iteration; without a spreadsheet error the run processes every
\* ticker in list order and appends each assembled record that is no
\* duplicate.  A spreadsheet error ends the run.  Rows appended stay.
C7_FetchFailureContained ==
    /\ [](/\ (pc \in {"done", "aborted"} /\ fetched # <<>> /\ ~io_error) =>
                 (pc = "done" /\ fetched = TICKERS)
          /\ pc = "aborted" => (io_error \/ fetched = <<>>)
          /\ fetched = SubSeq(TICKERS, 1, Len(fetched))
          /\ \A j \in DOMAIN written :
                 /\ written[j].title \in DOMAIN sheets
                 /\ written[j].row \in Range(sheets[written[j].title]))
    /\ [][/\ (pc = "fetch" /\ cur_rec'.kind = "rec") => pc' = "ensure"
          /\ (pc = "ensure" /\ ~io_error') => pc' = "dedup"
          /\ (pc = "dedup" /\ ~io_error'
                /\ ~HasDate(sheets[cur_ws], StrfIso(StrpCompact(cur_date))))
             => /\ sheets'[cur_ws] = Append(sheets[cur_ws], TrimRow(RowOf(cur_rec.rec)))
                /\ written' = Append(written, [title |-> cur_ws,
                                               row |-> TrimRow(RowOf(cur_rec.rec)),
                                               ohlcv |-> ohlcv_in])]_vars

\* C7 witness: the first ticker's row was appended, the price query of the
\* second raised, and the run still completed.
C7_Witness ==
    /\ pc = "done" /\ ~io_error
    /\ Len(TICKERS) = 2 /\ Len(fetched) = 2
    /\ Len(written) = 1 /\ ohlcv_in.raises

IsSuffix(a, b) == Len(a) <= Len(b) /\ SubSeq(b, Len(b) - Len(a) + 1, Len(b)) = a

\* C9: whenever main is about to read and append to a worksheet, its first
\* row reads back as the canonical header; rows are appended only then; and
\* ensure_ticker_sheet leaves the rows after the first unchanged in content
\* and order, below the header once it is established.
C9_HeaderBeforeAppend ==
    /\ [](pc = "dedup" =>
              (cur_ws \in DOMAIN sheets /\ RowValues(sheets[cur_ws], 1) = KR_HEADER))
    /\ [][/\ Len(written') > Len(written) =>
                 /\ pc = "dedup"
                 /\ RowValues(sheets[cur_ws], 1) = KR_HEADER
                 /\ RowValues(sheets'[cur_ws], 1) = KR_HEADER
          /\ (pc = "ensure" /\ CurTitle \in DOMAIN sheets) =>
                 /\ IsSuffix(Body(sheets[CurTitle]), sheets'[CurTitle])
                 /\ pc' = "dedup" =>
                        IsSuffix(Body(sheets[CurTitle]), Body(sheets'[CurTitle]))]_vars

\* C9 witness: the header was inserted above an empty first row and the
\* body row below it is still there.
C9_Witness ==
    /\ pc = "dedup"
    /\ Len(sheets[cur_ws]) = 3
    /\ sheets[cur_ws][2] = <<>>
    /\ DateOf(sheets[cur_ws][3]) # <<>>


(***************************************************************************)
(* SpecPick: pick_col applied to every table and candidate list over a     *)
(* small alphabet: two letters, a digit, a punctuation sign.               *)
(***************************************************************************)
MaxLabelLen == 2

MaxCols == 2

MaxCands == 2

PickAlphabet == {"a", "b", "1", "("}

SeqsUpTo(S, n) == UNION {[1..k -> S] : k \in 0..n}

PickLabels == SeqsUpTo(PickAlphabet, MaxLabelLen)

Injective(s) == \A i, j \in DOMAIN s : s[i] = s[j] => i = j

\* Non-empty column lists with unique labels.
PickColumnLists == {s \in SeqsUpTo(PickLabels, MaxCols) : s # <<>> /\ Injective(s)}

PickCandLists == SeqsUpTo(PickLabels, MaxCands) \ {<<>>}

\* One data row of a table whose cells play no part in pick_col.
BlankRow(columns) == [i \in DOMAIN columns |-> 0]

InitPick ==
    /\ pk_df \in {DF(cs, <<BlankRow(cs)>>) : cs \in PickColumnLists}
    /\ pk_cands \in PickCandLists
    /\ pk_res = NoCol
    /\ pk_pc = "call"
    /\ InitLocateIdle
    /\ InitFetchIdle
    /\ InitMainIdle

CallPickCol ==
    /\ pk_pc = "call"
    /\ pk_res' = PickCol(pk_df, pk_cands)
    /\ pk_pc' = "done"
    /\ UNCHANGED <<pk_df, pk_cands, locVars, fetchVars, mainVars>>

NextPick == CallPickCol

SpecPick == InitPick /\ [][NextPick]_vars

(***************************************************************************)
(* Claims about pick_col                                                   *)
(***************************************************************************)
\* The three-tier reference resolver of the column-resolver contract: ties
\* go to candidate order first, then table order.
RefExact(columns, candidates) ==
    LET i == FirstIdx(candidates, LAMBDA c : \E j \in DOMAIN columns : columns[j] = c)
    IN  IF i = 0 THEN NoCol ELSE candidates[i]

RefNorm(columns, candidates) ==
    LET i == FirstIdx(candidates,
                 LAMBDA c : \E j \in DOMAIN columns : Norm(columns[j]) = Norm(c))
    IN  IF i = 0 THEN NoCol
        ELSE columns[FirstIdx(columns, LAMBDA a : Norm(a) = Norm(candidates[i]))]

RefSubstr(columns, candidates) ==
    LET Hit(c, a) == Norm(c) # <<>> /\ IsSubstr(Norm(c), Norm(a))
        i == FirstIdx(candidates, LAMBDA c : \E j \in DOMAIN columns : Hit(c, columns[j]))
    IN  IF i = 0 THEN NoCol
        ELSE columns[FirstIdx(columns, LAMBDA a : Hit(candidates[i], a))]

RefResolve(columns, candidates) ==
    IF RefExact(columns, candidates) # NoCol THEN RefExact(columns, candidates)
    ELSE IF RefNorm(columns, candidates) # NoCol THEN RefNorm(columns, candidates)
    ELSE RefSubstr(columns, candidates)

\* C4: for every non-empty table with unique labels and every candidate
\* list, pick_col returns what the three-tier reference resolver returns
\* (exact, then normalized equality, then normalized substring; candidate
\* order first, then table order).
C4_PickColAgreesWithReference ==
    pk_pc = "done" => pk_res = RefResolve(pk_df.columns, pk_cands)

\* C10: an empty normalized key is never a match target.  When no candidate
\* is exactly a column label, a returned label has a non-empty normalized
\* key and was selected by a candidate whose normalized key is non-empty.
C10_EmptyKeyNeverMatches ==
    (/\ pk_pc = "done"
     /\ pk_res # NoCol
     /\ \A i \in DOMAIN pk_cands : pk_cands[i] \notin Range(pk_df.columns))
    => /\ Norm(pk_res) # <<>>
       /\ \E i \in DOMAIN pk_cands :
              /\ Norm(pk_cands[i]) # <<>>
              /\ IsSubstr(Norm(pk_cands[i]), Norm(pk_res))

====
